---------------------------- MODULE Spec2Model ----------------------------
(***************************************************************************)
(* Model of backend/main.py: the text-length management pipeline of the    *)
(* video summarizer (chunk_text, translate_to_english,                     *)
(* summarize_with_huggingface and its bullet-point formatting).            *)
(*                                                                         *)
(* A Python str is a sequence of one-character strings.  The bullet        *)
(* character U+2022 is the atom BULLET.  The two model pipelines           *)
(* (summarizer, translator) are collaborators: a call either raises or     *)
(* returns one of a small set of texts, chosen nondeterministically.       *)
(***************************************************************************)
EXTENDS Integers, Sequences, FiniteSets, TLC

VARIABLES
    pc,               \* position of the running function
    text,             \* the str argument (text / transcript)
    summary_type,     \* summarize_with_huggingface's summary_type
    max_chunk_size,   \* chunk_text's max_chunk_size
    word_count,       \* local word_count of summarize_with_huggingface
    chunks,           \* local chunks (chunk_text's result, translate's chunks)
    chunk_max,        \* local chunk_max
    chunk_min,        \* local chunk_min
    i,                \* index of the next chunk of the for loop (1-based)
    summaries,        \* local summaries / translated_chunks
    combined_summary, \* local combined_summary
    calls,            \* every call made to a collaborator so far, in order
    result            \* what the function gave its caller

vars == <<pc, text, summary_type, max_chunk_size, word_count, chunks, chunk_max,
          chunk_min, i, summaries, combined_summary, calls, result>>

----------------------------------------------------------------------------
(* Bounds of the model *)

\* longest text handed to chunk_text in SpecChunk
MaxTextLen == 8
\* largest max_chunk_size handed to chunk_text in SpecChunk
MaxBudget == 4
\* longest text handed to the bullet formatting in SpecFormat
MaxFmtLen == 5

----------------------------------------------------------------------------
(* Python str helpers *)

BULLET == "U+2022"

\* the characters str.split() and str.strip() treat as whitespace
IsSpace(c) == c \in {" ", "\n", "\t"}

Min2(a, b) == IF a < b THEN a ELSE b
Max2(a, b) == IF a > b THEN a ELSE b
Min3(a, b, c) == Min2(a, Min2(b, c))

\* n copies of the character c
Rep(c, n) == [k \in 1..n |-> c]

\* one step of str.split(): the character c read after the state st
SplitStep(st, c) ==
    IF IsSpace(c)
    THEN [cur |-> <<>>,
          acc |-> IF st.cur = <<>> THEN st.acc ELSE Append(st.acc, st.cur)]
    ELSE [cur |-> Append(st.cur, c), acc |-> st.acc]

\* the left-to-right scan of t[lo..hi], evaluated by halves (the left half
\* first) to bound the depth of the evaluation
RECURSIVE SplitFold(_, _, _, _)
SplitFold(st, t, lo, hi) ==
    IF lo > hi THEN st
    ELSE IF lo = hi THEN SplitStep(st, t[lo])
    ELSE LET mid == (lo + hi) \div 2
             left == SplitFold(st, t, lo, mid)
         IN  IF left.cur = left.cur THEN SplitFold(left, t, mid + 1, hi) ELSE st

\* str.split(): the maximal runs of non-whitespace characters, in order
Split(t) ==
    LET st == SplitFold([cur |-> <<>>, acc |-> <<>>], t, 1, Len(t))
    IN  IF st.cur = <<>> THEN st.acc ELSE Append(st.acc, st.cur)

\* sep.join(parts[lo..hi])
RECURSIVE JoinRange(_, _, _, _)
JoinRange(parts, sep, lo, hi) ==
    IF lo > hi THEN <<>>
    ELSE IF lo = hi THEN parts[lo]
    ELSE LET mid == (lo + hi) \div 2
         IN  JoinRange(parts, sep, lo, mid) \o sep \o JoinRange(parts, sep, mid + 1, hi)

\* sep.join(parts)
Join(parts, sep) == JoinRange(parts, sep, 1, Len(parts))

\* the first index >= from where sep occurs in t, 0 when there is none
FindSep(t, sep, from) ==
    LET hits == {j \in from..(Len(t) - Len(sep) + 1) :
                    SubSeq(t, j, j + Len(sep) - 1) = sep}
    IN  IF hits = {} THEN 0 ELSE CHOOSE j \in hits : \A k \in hits : j <= k

\* str.split(sep) from index from on: the pieces between the occurrences of
\* sep, found left to right
RECURSIVE SplitSepFrom(_, _, _)
SplitSepFrom(t, sep, from) ==
    LET j == FindSep(t, sep, from)
    IN  IF j = 0 THEN <<SubSeq(t, from, Len(t))>>
        ELSE <<SubSeq(t, from, j - 1)>> \o SplitSepFrom(t, sep, j + Len(sep))

\* str.split(sep)
SplitSep(t, sep) == SplitSepFrom(t, sep, 1)

\* str.strip(): without its leading and trailing whitespace
Strip(t) ==
    LET keep == {k \in 1..Len(t) : ~IsSpace(t[k])}
    IN  IF keep = {} THEN <<>>
        ELSE SubSeq(t, CHOOSE a \in keep : \A k \in keep : a <= k,
                       CHOOSE b \in keep : \A k \in keep : b >= k)

\* [s.strip() for s in sentences if s.strip()]
RECURSIVE StripKeep(_)
StripKeep(sentences) ==
    IF sentences = <<>> THEN <<>>
    ELSE LET s == Strip(Head(sentences))
         IN  (IF s # <<>> THEN <<s>> ELSE <<>>) \o StripKeep(Tail(sentences))

\* the bullet-point conversion:
\* "• " + "\n• ".join([s.strip() for s in text.split('. ') if s.strip()])
\* (faulty variants: no leading bullet; split on every period)
BulletFormatNoPrefix(t) ==
    Join(StripKeep(SplitSep(t, <<".", " ">>)), <<"\n", BULLET, " ">>)
BulletFormatAllPeriods(t) ==
    <<BULLET, " ">> \o Join(StripKeep(SplitSep(t, <<".">>)), <<"\n", BULLET, " ">>)
BulletFormat(t) ==
    <<BULLET, " ">> \o Join(StripKeep(SplitSep(t, <<".", " ">>)), <<"\n", BULLET, " ">>)

----------------------------------------------------------------------------
(* chunk_text *)

\* estimated_tokens > max_chunk_size, where estimated_tokens = length / 1.3:
\* for integers, length / 1.3 > m exactly when 10 * length > 13 * m
\* (faulty variant: the estimate leaves one character out)
TokensExceedMutant(length, budget) == 10 * (length - 1) > 13 * budget
TokensExceed(length, budget) == 10 * length > 13 * budget

\* one iteration of the for loop over words
\* (faulty variant: the word that closes a chunk is dropped)
ChunkWordMutant(st, word, budget) ==
    LET word_length == Len(word) + 1
    IN  IF TokensExceed(st.current_length + word_length, budget)
        THEN [chunks |-> IF st.current_chunk # <<>>
                         THEN Append(st.chunks, Join(st.current_chunk, <<" ">>))
                         ELSE st.chunks,
              current_chunk |-> <<>>,
              current_length |-> 0]
        ELSE [chunks |-> st.chunks,
              current_chunk |-> Append(st.current_chunk, word),
              current_length |-> st.current_length + word_length]
ChunkWord(st, word, budget) ==
    LET word_length == Len(word) + 1
    IN  IF TokensExceed(st.current_length + word_length, budget)
        THEN [chunks |-> IF st.current_chunk # <<>>
                         THEN Append(st.chunks, Join(st.current_chunk, <<" ">>))
                         ELSE st.chunks,
              current_chunk |-> <<word>>,
              current_length |-> Len(word)]
        ELSE [chunks |-> st.chunks,
              current_chunk |-> Append(st.current_chunk, word),
              current_length |-> st.current_length + word_length]

\* the for loop over words[lo..hi], evaluated by halves (the left half first)
RECURSIVE ChunkFold(_, _, _, _, _)
ChunkFold(st, words, lo, hi, budget) ==
    IF lo > hi THEN st
    ELSE IF lo = hi THEN ChunkWord(st, words[lo], budget)
    ELSE LET mid == (lo + hi) \div 2
             left == ChunkFold(st, words, lo, mid, budget)
         IN  IF left.current_length = left.current_length
             THEN ChunkFold(left, words, mid + 1, hi, budget)
             ELSE st

chunk_text(t, budget) ==
    LET words == Split(t)
        st == ChunkFold([chunks |-> <<>>, current_chunk |-> <<>>, current_length |-> 0],
                        words, 1, Len(words), budget)
    IN  IF st.current_chunk # <<>>
        THEN Append(st.chunks, Join(st.current_chunk, <<" ">>))
        ELSE st.chunks

----------------------------------------------------------------------------
(* What a function gives its caller *)

NoResult == [kind |-> "none", value |-> <<>>]
Returned(v) == [kind |-> "return", value |-> v]
Raised(e) == [kind |-> "raise", value |-> e]

\* every text of at most n characters over the alphabet A
TextsUpTo(A, n) == UNION {[1..k -> A] : k \in 0..n}

----------------------------------------------------------------------------
(* SpecChunk: chunk_text applied to every small text and budget *)

ChunkAlphabet == {"a", "b", " "}

InitChunk ==
    /\ pc = "chunk_text"
    /\ text \in TextsUpTo(ChunkAlphabet, MaxTextLen)
    /\ max_chunk_size \in (-1)..MaxBudget
    /\ summary_type = "none"
    /\ word_count = 0
    /\ chunks = <<>>
    /\ chunk_max = 0
    /\ chunk_min = 0
    /\ i = 0
    /\ summaries = <<>>
    /\ combined_summary = <<>>
    /\ calls = <<>>
    /\ result = NoResult

ChunkText ==
    /\ pc = "chunk_text"
    /\ chunks' = chunk_text(text, max_chunk_size)
    /\ result' = Returned(chunks')
    /\ pc' = "done"
    /\ UNCHANGED <<text, summary_type, max_chunk_size, word_count, chunk_max,
                   chunk_min, i, summaries, combined_summary, calls>>

NextChunk == ChunkText

SpecChunk == InitChunk /\ [][NextChunk]_vars

----------------------------------------------------------------------------
(* Claims about chunk_text *)

\* the whitespace-separated words of t, counted without Split
CountWords(t) ==
    Cardinality({k \in 1..Len(t) : ~IsSpace(t[k]) /\ (k = 1 \/ IsSpace(t[k - 1]))})

\* the chunk's estimated token count, its length / 1.3, is above the budget
OverBudget(chunk, budget) == 10 * Len(chunk) > 13 * budget

\* C2: joining the chunks of chunk_text with single spaces yields exactly the
\* words of the input in their original order; no chunk is empty, and every
\* word is whole in exactly one chunk (chunks begin and end on word boundaries
\* and hold single-spaced words).
C2_ChunksPreserveWords ==
    pc = "done" =>
        /\ Join(chunks, <<" ">>) = Join(Split(text), <<" ">>)
        /\ Split(Join(chunks, <<" ">>)) = Split(text)
        /\ \A k \in 1..Len(chunks) :
              /\ chunks[k] # <<>>
              /\ chunks[k] = Join(Split(chunks[k]), <<" ">>)
        /\ CountWords(Join(chunks, <<" ">>)) = CountWords(text)

C2_Witness ==
    /\ pc = "done"
    /\ Len(chunks) >= 2
    /\ \E k \in 1..Len(chunks) : CountWords(chunks[k]) >= 2
    /\ \E k \in 1..Len(chunks) : CountWords(chunks[k]) = 1

\* C8: every chunk of more than one word has an estimated token count of at
\* most max_chunk_size; a chunk above the budget is exactly one word, and every
\* oversized word of the input is a chunk of its own.
C8_ChunksWithinBudget ==
    pc = "done" =>
        /\ \A k \in 1..Len(chunks) :
              /\ CountWords(chunks[k]) > 1 => ~OverBudget(chunks[k], max_chunk_size)
              /\ OverBudget(chunks[k], max_chunk_size) => CountWords(chunks[k]) = 1
        /\ LET words == Split(text)
           IN  Cardinality({j \in 1..Len(words) : OverBudget(words[j], max_chunk_size)})
               = Cardinality({k \in 1..Len(chunks) : OverBudget(chunks[k], max_chunk_size)})

C8_Witness ==
    /\ pc = "done"
    /\ \E k \in 1..Len(chunks) : OverBudget(chunks[k], max_chunk_size)
    /\ \E k \in 1..Len(chunks) :
          /\ CountWords(chunks[k]) > 1
          /\ OverBudget(chunks[k] \o <<"a">>, max_chunk_size)
    /\ max_chunk_size > 0

----------------------------------------------------------------------------
(* SpecFormat: the bullet-point conversion applied to a small text, and then
   again to its own output *)

FmtAlphabet == {"a", ".", " ", "\n", BULLET}

InitFormat ==
    /\ pc = "format"
    /\ text \in TextsUpTo(FmtAlphabet, MaxFmtLen)
    /\ max_chunk_size = 0
    /\ summary_type = "bullet_points"
    /\ word_count = 0
    /\ chunks = <<>>
    /\ chunk_max = 0
    /\ chunk_min = 0
    /\ i = 0
    /\ summaries = <<>>
    /\ combined_summary = <<>>
    /\ calls = <<>>
    /\ result = NoResult

\* summaries[1] is the conversion of text, summaries[2] that of summaries[1]
FormatBullets ==
    /\ pc = "format"
    /\ Len(summaries) < 2
    /\ LET input == IF summaries = <<>> THEN text ELSE summaries[Len(summaries)]
       IN  /\ summaries' = Append(summaries, BulletFormat(input))
           /\ result' = Returned(BulletFormat(input))
    /\ pc' = IF Len(summaries) = 1 THEN "done" ELSE "format"
    /\ UNCHANGED <<text, summary_type, max_chunk_size, word_count, chunks, chunk_max,
                   chunk_min, i, combined_summary, calls>>

NextFormat == FormatBullets

SpecFormat == InitFormat /\ [][NextFormat]_vars

\* t holds the sequence ". " somewhere
HasPeriodSpace(t) == \E k \in 1..(Len(t) - 1) : t[k] = "." /\ t[k + 1] = " "

\* C7 as stated: the conversion applied to its own output, whose bullets hold
\* no ". ", returns that output unchanged.
C7_Original_Idempotent ==
    (pc = "done" /\ ~HasPeriodSpace(summaries[1])) => summaries[2] = summaries[1]

\* C7 as amended: the conversion applied to its own output, whose bullets hold
\* no ". ", returns that output stripped of outer whitespace with one more
\* "• " in front of it, which is never the output itself.
C7_SecondPassPrefixes ==
    (pc = "done" /\ ~HasPeriodSpace(summaries[1])) =>
        /\ summaries[2] = <<BULLET, " ">> \o Strip(summaries[1])
        /\ summaries[2] # summaries[1]
        /\ Len(summaries[2]) >= Len(summaries[1]) + 1

C7_Witness ==
    /\ pc = "done"
    /\ ~HasPeriodSpace(summaries[1])
    /\ HasPeriodSpace(text)
    /\ \E k \in 1..Len(summaries[1]) : summaries[1][k] = "\n"
    /\ \E k \in 1..Len(summaries[1]) : summaries[1][k] = "a"

----------------------------------------------------------------------------
(* summarize_with_huggingface *)

\* max_length_params.get(summary_type, max_length_params["detailed"])
Params(style) ==
    CASE style = "brief" -> [max_length |-> 100, min_length |-> 40]
      [] style = "bullet_points" -> [max_length |-> 200, min_length |-> 80]
      [] OTHER -> [max_length |-> 300, min_length |-> 150]

\* if word_count < 30: return transcript
IsShort(wc) == wc < 30

\* if word_count > 700: chunk and summarize, else summarize directly
\* (faulty variant: 700 words already take the chunked path)
IsLongMutant(wc) == wc >= 700
IsLong(wc) == wc > 700

\* adjusted_min_length
AdjustedMinLength(p, wc) == Max2(Min3(p.min_length, wc - 10, p.max_length - 20), 10)

\* chunk_max and chunk_min for n chunks
ChunkMax(p, n) == Max2(p.max_length \div Max2(n, 1), 50)
ChunkMin(adjusted, n) == Max2(adjusted \div Max2(n, 1), 10)

\* if chunk_words < 20: the chunk is appended to summaries as it is
\* (faulty variant: a chunk of exactly 20 words is skipped too)
SkipChunkMutant(chunk_words) == chunk_words <= 20
SkipChunk(chunk_words) == chunk_words < 20

\* safe_min of a chunk's call
\* (faulty variant: the chunk's own word count is ignored)
SafeMinMutant(cmin, chunk_words, cmax) == Max2(Min2(cmin, cmax - 10), 10)
SafeMin(cmin, chunk_words, cmax) == Max2(Min3(cmin, chunk_words - 5, cmax - 10), 10)

\* safe_min_final of the recombination call
SafeMinFinal(adjusted, combined_words, p) ==
    Max2(Min3(adjusted, combined_words - 10, p.max_length - 20), 10)

\* except Exception as e: raise HTTPException(status_code=500, ...)
\* (faulty variant: the summaries made so far are returned)
SummarizationFailedMutant == Returned(Join(summaries, <<" ">>))
SummarizationFailed == Raised(<<"HTTPException">>)

\* one call of the summarizer pipeline, as the collaborator sees it
SummarizerCall(kind, idx, arg, maxlen, minlen, ok) ==
    [fn |-> "summarizer", kind |-> kind, idx |-> idx, arg |-> arg,
     max_length |-> maxlen, min_length |-> minlen, ok |-> ok]

\* n words of len characters each, separated by single spaces
Words(n, len) == [k \in 1..(n * (len + 1) - 1) |-> IF k % (len + 1) = 0 THEN " " ELSE "a"]

\* the transcripts a request may carry: word counts on both sides of the two
\* thresholds and of the points where word_count - 10 meets a style's
\* min_length, outer whitespace, long words, a word above the chunk budget,
\* a last chunk below and at the 20-word threshold, and six chunks (two of
\* them summarized, four of one long word each)
Transcripts ==
    { <<>>,
      Words(29, 1),
      <<" ", " ">> \o Words(29, 50) \o <<"\n">>,
      Words(30, 40),
      Words(701, 1),
      Words(1180, 1),
      Words(1190, 1),
      Words(700, 1) \o <<" ">> \o Rep("a", 1200),
      Words(697, 1) \o <<" ">> \o Words(5, 600) }
    \cup { Words(n, 1) : n \in {30, 49, 50, 51, 89, 90, 91, 159, 160, 161, 700} }

\* "brief", "bullet_points", "detailed" and an unrecognized style
Styles == {"detailed", "brief", "bullet_points", "executive"}

PointOne == <<"P", "o", "i", "n", "t", " ", "o", "n", "e", ".">>
PointTwoThree ==
    <<"P", "o", "i", "n", "t", " ", "t", "w", "o", ".", " ",
      "P", "o", "i", "n", "t", " ", "t", "h", "r", "e", "e", ".">>

\* what the summarizer pipeline may return: short sentences, or a text of
\* 101 words (above the brief target on its own, above every target thrice)
SummaryTexts == {PointOne, PointTwoThree, Words(101, 1)}

InitSum ==
    /\ pc = "idle"
    /\ text = <<>>
    /\ summary_type = "none"
    /\ max_chunk_size = 0      \* 0 until chunk_text is called
    /\ word_count = 0
    /\ chunks = <<>>
    /\ chunk_max = 0
    /\ chunk_min = 0
    /\ i = 0
    /\ summaries = <<>>
    /\ combined_summary = <<>>
    /\ calls = <<>>
    /\ result = NoResult

\* the function from its entry to its first summarizer call: the short-text
\* return, or the choice of the direct or the chunked path
SummarizeBegin(transcript, style) ==
    /\ pc = "idle"
    /\ text' = transcript
    /\ summary_type' = style
    /\ LET wc == Len(Split(transcript))
           p == Params(style)
       IN  /\ word_count' = wc
           /\ IF IsShort(wc)
              THEN /\ result' = Returned(transcript)
                   /\ pc' = "done"
                   /\ UNCHANGED <<max_chunk_size, chunks, chunk_max, chunk_min, i>>
              ELSE IF IsLong(wc)
              THEN /\ max_chunk_size' = 900
                   /\ chunks' = chunk_text(transcript, 900)
                   /\ chunk_max' = ChunkMax(p, Len(chunks'))
                   /\ chunk_min' = ChunkMin(AdjustedMinLength(p, wc), Len(chunks'))
                   /\ i' = 1
                   /\ pc' = "chunks"
                   /\ UNCHANGED result
              ELSE /\ pc' = "direct"
                   /\ UNCHANGED <<max_chunk_size, chunks, chunk_max, chunk_min, i, result>>
    /\ UNCHANGED <<summaries, combined_summary, calls>>

\* the direct call and what follows it
SummarizeDirect ==
    /\ pc = "direct"
    /\ LET p == Params(summary_type)
           maxlen == Min2(p.max_length, word_count + 50)
           minlen == AdjustedMinLength(p, word_count)
       IN  \/ /\ calls' = Append(calls, SummarizerCall("direct", 0, text, maxlen, minlen, FALSE))
              /\ result' = SummarizationFailed
              /\ pc' = "failed"
           \/ \E summary_text \in SummaryTexts :
                 /\ calls' = Append(calls, SummarizerCall("direct", 0, text, maxlen, minlen, TRUE))
                 /\ result' = Returned(IF summary_type = "bullet_points"
                                       THEN BulletFormat(summary_text)
                                       ELSE summary_text)
                 /\ pc' = "done"
    /\ UNCHANGED <<text, summary_type, max_chunk_size, word_count, chunks, chunk_max,
                   chunk_min, i, summaries, combined_summary>>

\* one iteration of the for loop over chunks
SummarizeChunk ==
    /\ pc = "chunks"
    /\ i <= Len(chunks)
    /\ LET chunk == chunks[i]
           chunk_words == Len(Split(chunk))
           safe_min == SafeMin(chunk_min, chunk_words, chunk_max)
       IN  IF SkipChunk(chunk_words)
           THEN /\ summaries' = Append(summaries, chunk)
                /\ i' = i + 1
                /\ UNCHANGED <<pc, calls, result>>
           ELSE \/ /\ calls' = Append(calls,
                          SummarizerCall("chunk", i, chunk, chunk_max, safe_min, FALSE))
                   /\ result' = SummarizationFailed
                   /\ pc' = "failed"
                   /\ UNCHANGED <<summaries, i>>
                \/ \E summary_text \in SummaryTexts :
                      /\ calls' = Append(calls,
                             SummarizerCall("chunk", i, chunk, chunk_max, safe_min, TRUE))
                      /\ summaries' = Append(summaries, summary_text)
                      /\ i' = i + 1
                      /\ UNCHANGED <<pc, result>>
    /\ UNCHANGED <<text, summary_type, max_chunk_size, word_count, chunks, chunk_max,
                   chunk_min, combined_summary>>

\* after the loop: combine, then return the bullets, go on to the second pass
\* or return the combined summary
SummarizeCombine ==
    /\ pc = "chunks"
    /\ i > Len(chunks)
    /\ combined_summary' = Join(summaries, <<" ">>)
    /\ IF summary_type = "bullet_points"
       THEN /\ result' = Returned(BulletFormat(combined_summary'))
            /\ pc' = "done"
       ELSE IF Len(Split(combined_summary')) > Params(summary_type).max_length
       THEN /\ pc' = "recombine"
            /\ UNCHANGED result
       ELSE /\ result' = Returned(combined_summary')
            /\ pc' = "done"
    /\ UNCHANGED <<text, summary_type, max_chunk_size, word_count, chunks, chunk_max,
                   chunk_min, i, summaries, calls>>

\* the second pass over the combined summary and what follows it
SummarizeRecombine ==
    /\ pc = "recombine"
    /\ LET p == Params(summary_type)
           combined_words == Len(Split(combined_summary))
           safe_min_final == SafeMinFinal(AdjustedMinLength(p, word_count), combined_words, p)
       IN  \/ /\ calls' = Append(calls, SummarizerCall("recombine", 0, combined_summary,
                                                      p.max_length, safe_min_final, FALSE))
              /\ result' = SummarizationFailed
              /\ pc' = "failed"
           \/ \E final_text \in SummaryTexts :
                 /\ calls' = Append(calls, SummarizerCall("recombine", 0, combined_summary,
                                                         p.max_length, safe_min_final, TRUE))
                 /\ result' = Returned(IF summary_type = "bullet_points"
                                       THEN BulletFormat(final_text)
                                       ELSE final_text)
                 /\ pc' = "done"
    /\ UNCHANGED <<text, summary_type, max_chunk_size, word_count, chunks, chunk_max,
                   chunk_min, i, summaries, combined_summary>>

NextSum ==
    \/ \E transcript \in Transcripts, style \in Styles : SummarizeBegin(transcript, style)
    \/ SummarizeDirect
    \/ SummarizeChunk
    \/ SummarizeCombine
    \/ SummarizeRecombine

SpecSum == InitSum /\ [][NextSum]_vars

----------------------------------------------------------------------------
(* Claims about summarize_with_huggingface *)

\* the style's target max_length: 300 for detailed and for unrecognized styles
TargetMax(style) ==
    IF style = "brief" THEN 100 ELSE IF style = "bullet_points" THEN 200 ELSE 300

\* the positions in calls of the calls of one kind
CallsOfKind(kind) == {k \in 1..Len(calls) : calls[k].kind = kind}

\* C1: every call to the summarizer (direct, per chunk, recombination) has
\* 10 <= min_length < max_length and min_length <= (words of its text) - 5.
C1_CallParamsSafe ==
    \A k \in 1..Len(calls) :
        /\ 10 <= calls[k].min_length
        /\ calls[k].min_length < calls[k].max_length
        /\ calls[k].min_length <= CountWords(calls[k].arg) - 5

C1_Witness ==
    /\ summary_type = "executive"
    /\ Len(calls) = 4
    /\ calls[3].kind = "chunk"
    /\ calls[3].min_length = CountWords(calls[3].arg) - 5
    /\ calls[4].kind = "recombine"

\* C3: a failed summarizer call is the last call made, and the function ends
\* by raising: it never returns a string after a failure.
C3_FailureIsFatal ==
    /\ \A k \in 1..Len(calls) :
          ~calls[k].ok => /\ k = Len(calls)
                          /\ pc = "failed"
                          /\ result = Raised(<<"HTTPException">>)
    /\ result.kind = "return" => \A k \in 1..Len(calls) : calls[k].ok
    /\ pc = "failed" => result.kind = "raise" /\ ~calls[Len(calls)].ok

C3_Witness ==
    /\ pc = "failed"
    /\ Len(calls) = 2
    /\ calls[2].kind = "chunk"
    /\ ~calls[2].ok
    /\ Len(summaries) = 1

ScenarioCombined == PointOne \o <<" ">> \o PointTwoThree

\* the scenario's stated output, "• Point one\n• Point two\n• Point three"
ScenarioStated ==
    <<BULLET, " ", "P", "o", "i", "n", "t", " ", "o", "n", "e", "\n",
      BULLET, " ", "P", "o", "i", "n", "t", " ", "t", "w", "o", "\n",
      BULLET, " ", "P", "o", "i", "n", "t", " ", "t", "h", "r", "e", "e">>

ChunkedBulletsDone ==
    pc = "done" /\ max_chunk_size = 900 /\ summary_type = "bullet_points"

\* C6 as stated: every bullet is a sentence without its terminating period;
\* the scenario's combined summary yields the stated output.
C6_Original_NoPeriods ==
    (ChunkedBulletsDone /\ combined_summary = ScenarioCombined) =>
        result = Returned(ScenarioStated)

\* C6 as amended: the ". " separators are removed, and the last bullet keeps
\* the period that ends the combined summary; the scenario's combined summary
\* yields "• Point one\n• Point two\n• Point three.".
C6_LastBulletKeepsPeriod ==
    ChunkedBulletsDone =>
        /\ result.kind = "return"
        /\ ~HasPeriodSpace(result.value)
        /\ SubSeq(result.value, 1, 2) = <<BULLET, " ">>
        /\ (combined_summary # <<>> /\ combined_summary[Len(combined_summary)] = ".")
               => result.value[Len(result.value)] = "."
        /\ combined_summary = ScenarioCombined =>
               result = Returned(ScenarioStated \o <<".">>)

C6_Witness ==
    /\ ChunkedBulletsDone
    /\ combined_summary = ScenarioCombined
    /\ Len(calls) = 2

\* C9: in the chunked path the chunk calls are made in chunk order, one for
\* each chunk of at least 20 words and none for a shorter chunk, which is
\* carried as it is; at most one recombination call follows the last chunk,
\* made exactly when the style is not bullet_points and the combined text has
\* more words than the style's target max_length; otherwise the combined text
\* is the final text.
C9_ChunkedCallSequence ==
    max_chunk_size = 900 =>
        /\ \A k \in 1..Len(calls) : calls[k].kind \in {"chunk", "recombine"}
        /\ \A a, b \in CallsOfKind("chunk") : a < b => calls[a].idx < calls[b].idx
        /\ \A k \in CallsOfKind("chunk") :
              /\ calls[k].idx \in 1..Len(chunks)
              /\ calls[k].arg = chunks[calls[k].idx]
              /\ calls[k].idx <= i
              /\ calls[k].idx = i => (pc = "failed" /\ ~calls[k].ok)
        /\ \A j \in 1..(i - 1) :
              IF CountWords(chunks[j]) >= 20
              THEN Cardinality({k \in CallsOfKind("chunk") : calls[k].idx = j}) = 1
              ELSE /\ {k \in CallsOfKind("chunk") : calls[k].idx = j} = {}
                   /\ summaries[j] = chunks[j]
        /\ Cardinality(CallsOfKind("recombine")) <= 1
        /\ \A k \in CallsOfKind("recombine") :
              /\ k = Len(calls)
              /\ i = Len(chunks) + 1
              /\ calls[k].arg = combined_summary
        /\ pc \in {"recombine", "done", "failed"} /\ i = Len(chunks) + 1 =>
              /\ combined_summary = Join(summaries, <<" ">>)
              /\ (pc = "recombine" \/ CallsOfKind("recombine") # {})
                    <=> (/\ summary_type # "bullet_points"
                         /\ CountWords(combined_summary) > TargetMax(summary_type))
        /\ (/\ pc = "done"
            /\ summary_type # "bullet_points"
            /\ CountWords(combined_summary) <= TargetMax(summary_type))
               => result = Returned(combined_summary)

C9_Witness ==
    /\ pc = "done"
    /\ CallsOfKind("recombine") # {}
    /\ Len(chunks) = 3
    /\ CountWords(chunks[3]) < 20
    /\ Cardinality(CallsOfKind("chunk")) = 2

----------------------------------------------------------------------------
(* translate_to_english *)

\* most sentences of a text handed to translate_to_english in SpecTranslate
MaxSentences == 3

\* one iteration of the for loop over sentences (max_chars = 400)
SentenceStep(st, sentence) ==
    IF Len(st.current_chunk) + Len(sentence) > 400
    THEN [chunks |-> IF st.current_chunk # <<>>
                     THEN Append(st.chunks, st.current_chunk)
                     ELSE st.chunks,
          current_chunk |-> sentence]
    ELSE [chunks |-> st.chunks,
          current_chunk |-> st.current_chunk
                            \o (IF st.current_chunk # <<>> THEN <<".", " ">> ELSE <<>>)
                            \o sentence]

\* the for loop over sentences[k..]
RECURSIVE SentenceFold(_, _, _)
SentenceFold(st, sentences, k) ==
    IF k > Len(sentences) THEN st
    ELSE SentenceFold(SentenceStep(st, sentences[k]), sentences, k + 1)

\* the chunks of a text longer than max_chars
SentenceChunks(t) ==
    LET st == SentenceFold([chunks |-> <<>>, current_chunk |-> <<>>],
                           SplitSep(t, <<".", " ">>), 1)
    IN  IF st.current_chunk # <<>> THEN Append(st.chunks, st.current_chunk) ELSE st.chunks

\* except Exception as e: return text
\* (faulty variant: the chunks translated so far are returned)
TranslationFailedMutant == Returned(Join(summaries, <<" ">>))
TranslationFailed == Returned(text)

\* one call of the translator pipeline, as the collaborator sees it
TranslatorCall(kind, idx, arg, ok) ==
    [fn |-> "translator", kind |-> kind, idx |-> idx, arg |-> arg,
     max_length |-> 512, min_length |-> 0, ok |-> ok]

\* the lengths of the sentences of the texts: empty, short, two that together
\* make 400 or 401 characters, and one above max_chars on its own
SentenceLens == {0, 1, 200, 201, 401}

\* the texts a request may carry: up to MaxSentences sentences joined by ". "
TranslateTexts ==
    UNION { { Join([k \in 1..n |-> Rep("a", lens[k])], <<".", " ">>) :
                lens \in [1..n -> SentenceLens] } : n \in 1..MaxSentences }

\* what the translator pipeline may return
TranslationTexts == {<<"h", "i">>, <<"o", "k", ".">>}

InitTranslate ==
    /\ pc = "idle"
    /\ text = <<>>
    /\ summary_type = "none"
    /\ max_chunk_size = 0
    /\ word_count = 0
    /\ chunks = <<>>
    /\ chunk_max = 0
    /\ chunk_min = 0
    /\ i = 0
    /\ summaries = <<>>
    /\ combined_summary = <<>>
    /\ calls = <<>>
    /\ result = NoResult

\* the function from its entry to its first translator call
TranslateBegin(t) ==
    /\ pc = "idle"
    /\ text' = t
    /\ IF Len(t) > 400
       THEN /\ chunks' = SentenceChunks(t)
            /\ i' = 1
            /\ pc' = "chunks"
       ELSE /\ pc' = "direct"
            /\ UNCHANGED <<chunks, i>>
    /\ UNCHANGED <<summary_type, max_chunk_size, word_count, chunk_max, chunk_min,
                   summaries, combined_summary, calls, result>>

\* one iteration of the for loop over chunks; summaries is translated_chunks
TranslateChunk ==
    /\ pc = "chunks"
    /\ i <= Len(chunks)
    /\ \/ /\ calls' = Append(calls, TranslatorCall("chunk", i, chunks[i], FALSE))
          /\ result' = TranslationFailed
          /\ pc' = "done"
          /\ UNCHANGED <<summaries, i>>
       \/ \E translation_text \in TranslationTexts :
             /\ calls' = Append(calls, TranslatorCall("chunk", i, chunks[i], TRUE))
             /\ summaries' = Append(summaries, translation_text)
             /\ i' = i + 1
             /\ UNCHANGED <<pc, result>>
    /\ UNCHANGED <<text, summary_type, max_chunk_size, word_count, chunks, chunk_max,
                   chunk_min, combined_summary>>

\* return " ".join(translated_chunks)
TranslateJoin ==
    /\ pc = "chunks"
    /\ i > Len(chunks)
    /\ result' = Returned(Join(summaries, <<" ">>))
    /\ pc' = "done"
    /\ UNCHANGED <<text, summary_type, max_chunk_size, word_count, chunks, chunk_max,
                   chunk_min, i, summaries, combined_summary, calls>>

\* the direct call of a text of at most max_chars characters
TranslateDirect ==
    /\ pc = "direct"
    /\ \/ /\ calls' = Append(calls, TranslatorCall("direct", 0, text, FALSE))
          /\ result' = TranslationFailed
       \/ \E translation_text \in TranslationTexts :
             /\ calls' = Append(calls, TranslatorCall("direct", 0, text, TRUE))
             /\ result' = Returned(translation_text)
    /\ pc' = "done"
    /\ UNCHANGED <<text, summary_type, max_chunk_size, word_count, chunks, chunk_max,
                   chunk_min, i, summaries, combined_summary>>

NextTranslate ==
    \/ \E t \in TranslateTexts : TranslateBegin(t)
    \/ TranslateChunk
    \/ TranslateJoin
    \/ TranslateDirect

SpecTranslate == InitTranslate /\ [][NextTranslate]_vars

----------------------------------------------------------------------------
(* Claims about translate_to_english *)

\* C4: translate_to_english never raises; it ends by returning a string, and
\* once a translator call has failed it makes no further call and returns
\* the whole original text.
C4_TranslateNeverRaises ==
    /\ result.kind # "raise"
    /\ pc = "done" => result.kind = "return"
    /\ \A k \in 1..Len(calls) :
          ~calls[k].ok => /\ k = Len(calls)
                          /\ pc = "done"
                          /\ result = Returned(text)

C4_Witness ==
    /\ pc = "done"
    /\ Len(calls) = 2
    /\ calls[1].ok
    /\ ~calls[2].ok
    /\ calls[2].kind = "chunk"
    /\ result = Returned(text)

\* C10 as stated: every chunk handed to the translator that was built from
\* more than one sentence (it holds a ". " separator) has at most 400
\* characters.
C10_MultiSentenceChunkWithinMaxChars ==
    \A k \in 1..Len(calls) :
        (calls[k].kind = "chunk" /\ HasPeriodSpace(calls[k].arg))
            => Len(calls[k].arg) <= 400

=============================================================================
